---- MODULE Spec2Model ----
(***************************************************************************)
(* A model of chromadb-extended (src/src/index.ts): the client             *)
(* ChromaClientExtended, the Collection objects it hands out, and the      *)
(* request normalization and validation in front of the vector-store       *)
(* service.  The service and the embedding function are external: the      *)
(* model records what is sent to them and lets them answer freely.         *)
(***************************************************************************)
EXTENDS Integers, Sequences, FiniteSets, TLC

(***************************************************************************)
(* Bounds of the model.                                                    *)
(***************************************************************************)
\* Longest array a caller passes to add, upsert, update and query in SpecBatch.
MaxLen == 3
\* Longest array a caller passes to a batch operation in Spec, where the
\* whole life cycle of client and collection is explored.
ClientMaxLen == 0

(***************************************************************************)
(* JavaScript values.  Every value is a record of one shape: k is what     *)
(* typeof / Array.isArray tell apart, s names an atom, e holds an array's  *)
(* elements.                                                               *)
(***************************************************************************)
Undef == [k |-> "undefined", s |-> "", e |-> <<>>]
Str(x) == [k |-> "string", s |-> x, e |-> <<>>]
Num(x) == [k |-> "number", s |-> x, e |-> <<>>]
Obj(x) == [k |-> "object", s |-> x, e |-> <<>>]
Arr(q) == [k |-> "array", s |-> "", e |-> q]

IsArray(x) == x.k = "array"
\* typeof x: an array is an "object".
TypeOf(x) == IF x.k = "array" THEN "object" ELSE x.k
\* x || y on the values used here: undefined and "" are falsy.
Truthy(x) == ~(x = Undef \/ x = Str(""))
OrElse(x, y) == IF Truthy(x) THEN x ELSE y
\* x ?? y
Coalesce(x, y) == IF x = Undef THEN y ELSE x

\* chromadb/dist/main/utils toArray: Array.isArray(obj) ? obj : [obj]
toArray(obj) == IF IsArray(obj) THEN obj ELSE Arr(<<obj>>)
\* chromadb/dist/main/utils toArrayOfArrays: Array.isArray(obj[0]) ? obj : [obj]
\* (obj[0] of an empty array is undefined, so [] becomes [[]]).
toArrayOfArrays(obj) ==
    IF IsArray(obj) /\ Len(obj.e) > 0 /\ IsArray(obj.e[1]) THEN obj ELSE Arr(<<obj>>)

Length(arr) == Len(arr.e)

(***************************************************************************)
(* Errors.  msg is the message's fixed text; found, index and ids are the  *)
(* values a template interpolates into it (found = "", index = -1,         *)
(* ids = <<>> when the message interpolates nothing).                      *)
(***************************************************************************)
Error(msg, found, index, ids) == [msg |-> msg, found |-> found, index |-> index, ids |-> ids]
NoError == Error("", "", -1, <<>>)
MissingInputError == Error("embeddings and documents cannot both be undefined", "", -1, <<>>)
ConfigurationError ==
    Error("embeddingFunction is undefined. Please configure an embedding function", "", -1, <<>>)
InternalError == Error("embeddings is undefined but shouldnt be", "", -1, <<>>)
TypeError(found, index) == Error("Expected ids to be strings, found ... at index ...", found, index, <<>>)
LengthError ==
    Error("ids, embeddings, metadatas, and documents must all be the same length", "", -1, <<>>)
UniquenessError(ids) == Error("Expected IDs to be unique, found duplicates for: ...", "", -1, ids)
UpdateNothingError ==
    Error("embeddings, documents, and metadatas cannot all be undefined", "", -1, <<>>)
QueryNothingError == Error("queryEmbeddings and queryTexts cannot both be undefined", "", -1, <<>>)
NotImplementedError == Error("Not implemented in JS client", "", -1, <<>>)
\* The embedding function's own failure, and the service's error message.
GenerateError == Error("embedding function failed", "", -1, <<>>)
ServiceError == Error("service error", "", -1, <<>>)
NotFoundError == Error("collection not found", "", -1, <<>>)
\* The error messages the service answers a request with.
ServiceErrors == {ServiceError, NotFoundError}

(***************************************************************************)
(* Collection.validate, lines 376-430: what runs once embeddings are       *)
(* settled (given by the caller, or returned by the embedding function).   *)
(***************************************************************************)
\* idsArray.indexOf(item), 0-based; every item asked for is in the array.
IndexOf(q, item) == (CHOOSE i \in 1..Len(q) : q[i] = item /\ \A j \in 1..(i - 1) : q[j] # item) - 1

\* A variant whose filter keeps every id.
DuplicateIdsUnfiltered(q) == q

\* idsArray.filter((item, index) => idsArray.indexOf(item) !== index)
DuplicateIds(q) ==
    LET f[i \in 0..Len(q)] ==
            IF i = 0 THEN <<>>
            ELSE IF IndexOf(q, q[i]) # i - 1 THEN Append(f[i - 1], q[i]) ELSE f[i - 1]
    IN f[Len(q)]

\* A variant that takes every element for distinct.
UniqueSizeUnchecked(q) == Len(q)

\* new Set(idsArray).size
UniqueSize(q) == Cardinality({q[i] : i \in 1..Len(q)})

\* A variant whose loop never finds a non-string.
FirstNonStringSkipped(q) == -1

\* A variant whose loop runs to the end and keeps the last non-string it met.
LastNonString(q) ==
    LET bad == {i \in 1..Len(q) : TypeOf(q[i]) # "string"}
    IN IF bad = {} THEN -1 ELSE (CHOOSE i \in bad : \A j \in bad : i >= j) - 1

\* The loop of lines 397-405: the first index whose element is no string, or -1.
FirstNonString(q) ==
    LET bad == {i \in 1..Len(q) : TypeOf(q[i]) # "string"}
    IN IF bad = {} THEN -1 ELSE (CHOOSE i \in bad : \A j \in bad : i <= j) - 1

\* Variants of the length check that leave a column out.
LengthsDifferWithoutMetadatas(idsArray, embeddingsArray, metadatasArray, documentsArray) ==
    \/ (embeddingsArray # Undef /\ Length(idsArray) # Length(embeddingsArray))
    \/ (documentsArray # Undef /\ Length(idsArray) # Length(documentsArray))
LengthsDifferWithoutEmbeddings(idsArray, embeddingsArray, metadatasArray, documentsArray) ==
    \/ (metadatasArray # Undef /\ Length(idsArray) # Length(metadatasArray))
    \/ (documentsArray # Undef /\ Length(idsArray) # Length(documentsArray))

\* Lines 407-414.
LengthsDiffer(idsArray, embeddingsArray, metadatasArray, documentsArray) ==
    \/ (embeddingsArray # Undef /\ Length(idsArray) # Length(embeddingsArray))
    \/ (metadatasArray # Undef /\ Length(idsArray) # Length(metadatasArray))
    \/ (documentsArray # Undef /\ Length(idsArray) # Length(documentsArray))

Validated(error, idsArray, embeddingsArray, metadatasArray, documentsArray) ==
    [error |-> error, ids |-> idsArray, embeddings |-> embeddingsArray,
     metadatas |-> metadatasArray, documents |-> documentsArray]
Rejected(error) == Validated(error, Undef, Undef, Undef, Undef)

\* A variant that looks for duplicates before it compares the lengths.
validateCheckUniqueFirst(ids, embeddings, metadatas, documents) ==
    IF embeddings = Undef THEN Rejected(InternalError)
    ELSE
    LET idsArray == toArray(ids)
        embeddingsArray == toArrayOfArrays(embeddings)
        metadatasArray == IF metadatas = Undef THEN Undef ELSE toArray(metadatas)
        documentsArray == IF documents = Undef THEN Undef ELSE toArray(documents)
        i == FirstNonString(idsArray.e)
    IN  IF i # -1 THEN Rejected(TypeError(TypeOf(idsArray.e[i + 1]), i))
        ELSE IF UniqueSize(idsArray.e) # Length(idsArray)
        THEN Rejected(UniquenessError(DuplicateIds(idsArray.e)))
        ELSE IF LengthsDiffer(idsArray, embeddingsArray, metadatasArray, documentsArray)
        THEN Rejected(LengthError)
        ELSE Validated(NoError, idsArray, embeddingsArray, metadatasArray, documentsArray)

validateCheck(ids, embeddings, metadatas, documents) ==
    IF embeddings = Undef THEN Rejected(InternalError)
    ELSE
    LET idsArray == toArray(ids)
        embeddingsArray == toArrayOfArrays(embeddings)
        metadatasArray == IF metadatas = Undef THEN Undef ELSE toArray(metadatas)
        documentsArray == IF documents = Undef THEN Undef ELSE toArray(documents)
        i == FirstNonString(idsArray.e)
    IN  IF i # -1 THEN Rejected(TypeError(TypeOf(idsArray.e[i + 1]), i))
        ELSE IF LengthsDiffer(idsArray, embeddingsArray, metadatasArray, documentsArray)
        THEN Rejected(LengthError)
        ELSE IF UniqueSize(idsArray.e) # Length(idsArray)
        THEN Rejected(UniquenessError(DuplicateIds(idsArray.e)))
        ELSE Validated(NoError, idsArray, embeddingsArray, metadatasArray, documentsArray)

(***************************************************************************)
(* What callers pass.  Arrays up to length n; ids hold two strings and a   *)
(* number, vectors and documents alternate two values so that order shows. *)
(***************************************************************************)
RECURSIVE SeqsOfLen(_, _)
SeqsOfLen(S, n) == IF n = 0 THEN {<<>>} ELSE {Append(q, x) : q \in SeqsOfLen(S, n - 1), x \in S}
SeqsUpTo(S, n) == UNION {SeqsOfLen(S, m) : m \in 0..n}
RECURSIVE Alternate(_, _, _)
Alternate(x, y, n) == IF n = 0 THEN <<>> ELSE <<x>> \o Alternate(y, x, n - 1)

IdAtoms == {Str("a"), Str("b"), Num("7")}
V1 == Arr(<<Num("1"), Num("2")>>)
V2 == Arr(<<Num("3"), Num("4")>>)
Vectors == {V1, V2}
M1 == Obj("metadata")
D1 == Str("d1")
D2 == Str("d2")

IdsInputs(n) == {Str("a"), Num("7")} \cup {Arr(q) : q \in SeqsUpTo(IdAtoms, n)}
EmbeddingsInputs(n) == {Undef, V1} \cup {Arr(Alternate(V1, V2, m)) : m \in 0..n}
MetadatasInputs(n) == {Undef, M1} \cup {Arr(Alternate(M1, M1, m)) : m \in 0..n}
DocumentsInputs(n) == {Undef, D1} \cup {Arr(Alternate(D1, D2, m)) : m \in 0..n}

\* Constructor and collection arguments, and what the service answers.
Paths == {Undef, Str("http://chroma:8000")}
Headers == Obj("headers")
FetchOptions == {Undef, Headers}
EmptyObject == Obj("{}")
EF == Obj("embeddingFunction")
EmbeddingFunctions == {Undef, EF}
Names == {Str("n1"), Str("n2")}
CollectionMetadatas == {Undef, Obj("cm1"), Obj("cm2")}
ServiceIds == {Str("id1"), Str("id2")}

(***************************************************************************)
(* State.                                                                  *)
(***************************************************************************)
VARIABLES
    params,   \* what the constructor was called with: [path, fetchOptions]
    api,      \* ChromaClientExtended.api: [basePath, options]
    coll,     \* the Collection object in use: [live, name, id, metadata, embeddingFunction]
    calls,    \* the calls in flight, by caller: their arguments, position and effects
    made      \* the Collection object in use as its constructor left it

vars == <<params, api, coll, calls, made>>

\* ChromaClientExtended.constructor
constructor(path, fetchOptions) ==
    [basePath |-> IF path = Undef THEN Str("http://localhost:8000") ELSE path,
     options |-> Coalesce(fetchOptions, EmptyObject)]

\* Collection.constructor
Collection(name, id, metadata, embeddingFunction) ==
    [live |-> TRUE, name |-> name, id |-> id, metadata |-> metadata,
     embeddingFunction |-> embeddingFunction]
NoCollection ==
    [live |-> FALSE, name |-> Undef, id |-> Undef, metadata |-> Undef, embeddingFunction |-> Undef]

Result(kind, error) == [kind |-> kind, error |-> error]

\* The collection the service answers createCollection, getOrCreateCollection
\* and getCollection with: newCollection / response.
Answer(name, id, metadata) == [name |-> name, id |-> id, metadata |-> metadata]
NoAnswer == Answer(Undef, Undef, Undef)

IdleCall ==
    [op |-> "", pc |-> "idle",
     ids |-> Undef, embeddings |-> Undef, metadatas |-> Undef, documents |-> Undef,
     queryEmbeddings |-> Undef, queryTexts |-> Undef,
     name |-> Undef, metadata |-> Undef, embeddingFunction |-> Undef,
     require_embeddings_or_documents |-> TRUE,
     generated |-> <<>>, returned |-> Undef, sent |-> <<>>, response |-> NoError,
     answer |-> NoAnswer, applied |-> FALSE, applied_last |-> FALSE, value |-> Undef, result |-> Result("none", NoError)]

NewCall(op) == [IdleCall EXCEPT !.op = op, !.pc = "running"]

\* The options argument every client method passes: this.api.options
ClientOptions == api.options
\* A variant in which Collection methods pass no options, as the stock Collection does.
CollectionOptionsDropped == Undef

\* The options argument every Collection method passes: this.api.options
CollectionOptions == api.options

\* A request handed to the generated API bindings.
Request(ep, target, options) ==
    [ep |-> ep, target |-> target, options |-> options,
     ids |-> Undef, embeddings |-> Undef, metadatas |-> Undef, documents |-> Undef,
     query_embeddings |-> Undef, name |-> Undef, metadata |-> Undef, get_or_create |-> FALSE]

\* The call throws (its promise rejects) before or instead of a request.
Thrown(call, error) == [call EXCEPT !.pc = "done", !.result = Result("rejected", error)]
\* The call returns a value (its promise resolves) without a request.
Returned(call, value) ==
    [call EXCEPT !.pc = "done", !.value = value, !.result = Result("resolved", NoError)]
\* The call hands a request to the service and awaits the answer.
Sent(call, request) == [call EXCEPT !.pc = "request", !.sent = Append(@, request)]
\* The call awaits this.embeddingFunction.generate(texts).
Generating(call, texts) == [call EXCEPT !.pc = "generate", !.generated = Append(@, texts)]

\* A caller starts its next call once the last one has settled.
CanStart(c) == calls[c].pc = "idle"

\* The caller's await of the call's promise returns or throws: the call is over.
settle(c) ==
    /\ calls[c].pc = "done"
    /\ calls' = [calls EXCEPT ![c] = IdleCall]
    /\ UNCHANGED <<params, api, coll, made>>

(***************************************************************************)
(* Collection.validate, lines 360-375: up to the await of the embedding    *)
(* function.  "check" stands for going on to line 376 at once.             *)
(***************************************************************************)
\* A variant without the check of lines 360-364.
validateBeginUnrequired(require_embeddings_or_documents, embeddings, documents) ==
    IF embeddings = Undef /\ documents # Undef
    THEN (IF coll.embeddingFunction # Undef THEN "generate" ELSE "configuration")
    ELSE "check"

\* A variant that calls generate without looking for the embedding function.
validateBeginUnconfigured(require_embeddings_or_documents, embeddings, documents) ==
    IF require_embeddings_or_documents /\ embeddings = Undef /\ documents = Undef
    THEN "missing"
    ELSE IF embeddings = Undef /\ documents # Undef
    THEN "generate"
    ELSE "check"

\* A variant that embeds the documents whenever they are given.
validateBeginDocumentsFirst(require_embeddings_or_documents, embeddings, documents) ==
    IF require_embeddings_or_documents /\ embeddings = Undef /\ documents = Undef
    THEN "missing"
    ELSE IF documents # Undef
    THEN (IF coll.embeddingFunction # Undef THEN "generate" ELSE "configuration")
    ELSE "check"

validateBegin(require_embeddings_or_documents, embeddings, documents) ==
    IF require_embeddings_or_documents /\ embeddings = Undef /\ documents = Undef
    THEN "missing"
    ELSE IF embeddings = Undef /\ documents # Undef
    THEN (IF coll.embeddingFunction # Undef THEN "generate" ELSE "configuration")
    ELSE "check"

\* Collection.validate on its own, lines 376-430: the checks, then the return
\* of [idsArray, embeddingsArray, metadatasArray, documentsArray].
validateReturns(call, embeddings) ==
    LET v == validateCheck(call.ids, embeddings, call.metadatas, call.documents)
    IN  IF v.error # NoError THEN Thrown(call, v.error)
        ELSE Returned(call, Arr(<<v.ids, v.embeddings, v.metadatas, v.documents>>))

\* Collection.validate on its own, lines 360-375.
validateRun(call) ==
    LET step == validateBegin(call.require_embeddings_or_documents, call.embeddings, call.documents)
    IN  CASE step = "missing" -> Thrown(call, MissingInputError)
          [] step = "configuration" -> Thrown(call, ConfigurationError)
          [] step = "generate" -> Generating(call, toArray(call.documents))
          [] OTHER -> validateReturns(call, call.embeddings)

\* A variant that transmits the caller's ids as passed, not idsArray.
insertValidatedRawIds(call, embeddings) ==
    LET v == validateCheck(call.ids, embeddings, call.metadatas, call.documents)
    IN  IF v.error # NoError THEN Thrown(call, v.error)
        ELSE Sent(call, [Request(call.op, coll.id, CollectionOptions) EXCEPT
                            !.ids = call.ids, !.embeddings = v.embeddings,
                            !.documents = v.documents, !.metadatas = v.metadatas])

\* add / upsert after validate has settled the embeddings: the checks of
\* lines 376-430, then the request of lines 466-480 (518-532).
insertValidated(call, embeddings) ==
    LET v == validateCheck(call.ids, embeddings, call.metadatas, call.documents)
    IN  IF v.error # NoError THEN Thrown(call, v.error)
        ELSE Sent(call, [Request(call.op, coll.id, CollectionOptions) EXCEPT
                            !.ids = v.ids, !.embeddings = v.embeddings,
                            !.documents = v.documents, !.metadatas = v.metadatas])

\* A variant that hands generate the documents as passed, not documentsArray.
insertRawDocuments(call) ==
    LET step == validateBegin(TRUE, call.embeddings, call.documents)
    IN  CASE step = "missing" -> Thrown(call, MissingInputError)
          [] step = "configuration" -> Thrown(call, ConfigurationError)
          [] step = "generate" -> Generating(call, call.documents)
          [] OTHER -> insertValidated(call, call.embeddings)

\* A variant that looks at the ids before it turns to the embedding function.
insertIdsFirst(call) ==
    LET step == validateBegin(TRUE, call.embeddings, call.documents)
        i == FirstNonString(toArray(call.ids).e)
    IN  CASE step = "missing" -> Thrown(call, MissingInputError)
          [] step = "configuration" -> Thrown(call, ConfigurationError)
          [] step = "generate" ->
               IF i # -1 THEN Thrown(call, TypeError(TypeOf(toArray(call.ids).e[i + 1]), i))
               ELSE IF UniqueSize(toArray(call.ids).e) # Length(toArray(call.ids))
               THEN Thrown(call, UniquenessError(DuplicateIds(toArray(call.ids).e)))
               ELSE Generating(call, toArray(call.documents))
          [] OTHER -> insertValidated(call, call.embeddings)

\* The body of add and of upsert up to its first await that leaves the call.
insert(call) ==
    LET step == validateBegin(TRUE, call.embeddings, call.documents)
    IN  CASE step = "missing" -> Thrown(call, MissingInputError)
          [] step = "configuration" -> Thrown(call, ConfigurationError)
          [] step = "generate" -> Generating(call, toArray(call.documents))
          [] OTHER -> insertValidated(call, call.embeddings)

BatchCall(op, ids, embeddings, metadatas, documents) ==
    [NewCall(op) EXCEPT !.ids = ids, !.embeddings = embeddings,
                        !.metadatas = metadatas, !.documents = documents]

\* Collection.add
add(c, n) ==
    /\ coll.live /\ CanStart(c)
    /\ \E ids \in IdsInputs(n), embeddings \in EmbeddingsInputs(n),
          metadatas \in MetadatasInputs(n), documents \in DocumentsInputs(n) :
          calls' = [calls EXCEPT ![c] = insert(BatchCall("add", ids, embeddings, metadatas, documents))]
    /\ UNCHANGED <<params, api, coll, made>>

\* Collection.upsert
upsert(c, n) ==
    /\ coll.live /\ CanStart(c)
    /\ \E ids \in IdsInputs(n), embeddings \in EmbeddingsInputs(n),
          metadatas \in MetadatasInputs(n), documents \in DocumentsInputs(n) :
          calls' = [calls EXCEPT ![c] = insert(BatchCall("upsert", ids, embeddings, metadatas, documents))]
    /\ UNCHANGED <<params, api, coll, made>>

\* Collection.validate, called by itself with either value of its flag.
validate(c, n) ==
    /\ coll.live /\ CanStart(c)
    /\ \E require_embeddings_or_documents \in BOOLEAN,
          ids \in IdsInputs(n), embeddings \in EmbeddingsInputs(n),
          metadatas \in MetadatasInputs(n), documents \in DocumentsInputs(n) :
          calls' = [calls EXCEPT ![c] =
                       validateRun([BatchCall("validate", ids, embeddings, metadatas, documents)
                                       EXCEPT !.require_embeddings_or_documents =
                                                  require_embeddings_or_documents])]
    /\ UNCHANGED <<params, api, coll, made>>

\* A variant that normalizes every field, given or not.
updateSendNormalizesAll(call, embeddings) ==
    Sent(call, [Request("update", coll.id, CollectionOptions) EXCEPT
                   !.ids = toArray(call.ids),
                   !.embeddings = toArrayOfArrays(embeddings),
                   !.documents = toArray(call.documents),
                   !.metadatas = toArray(call.metadatas)])

\* A variant that addresses the collection by its name, as getCollection and
\* deleteCollection do, not by its id.
updateSendByName(call, embeddings) ==
    Sent(call, [Request("update", coll.name, CollectionOptions) EXCEPT
                   !.ids = toArray(call.ids),
                   !.embeddings = IF embeddings # Undef THEN toArrayOfArrays(embeddings) ELSE Undef,
                   !.documents = IF call.documents # Undef THEN toArray(call.documents) ELSE Undef,
                   !.metadatas = IF call.metadatas # Undef THEN toArray(call.metadatas) ELSE Undef])

\* Collection.update, lines 698-714: the request, once the embeddings are settled.
updateSend(call, embeddings) ==
    Sent(call, [Request("update", coll.id, CollectionOptions) EXCEPT
                   !.ids = toArray(call.ids),
                   !.embeddings = IF embeddings # Undef THEN toArrayOfArrays(embeddings) ELSE Undef,
                   !.documents = IF call.documents # Undef THEN toArray(call.documents) ELSE Undef,
                   !.metadatas = IF call.metadatas # Undef THEN toArray(call.metadatas) ELSE Undef])

\* A variant without the check of lines 679-686.
updateBeginUnguarded(call) ==
    IF call.embeddings = Undef /\ call.documents # Undef
    THEN (IF coll.embeddingFunction # Undef
          THEN Generating(call, toArray(call.documents))
          ELSE Thrown(call, ConfigurationError))
    ELSE updateSend(call, call.embeddings)

\* Collection.update, lines 679-696.
updateBegin(call) ==
    IF call.embeddings = Undef /\ call.documents = Undef /\ call.metadatas = Undef
    THEN Thrown(call, UpdateNothingError)
    ELSE IF call.embeddings = Undef /\ call.documents # Undef
    THEN (IF coll.embeddingFunction # Undef
          THEN Generating(call, toArray(call.documents))
          ELSE Thrown(call, ConfigurationError))
    ELSE updateSend(call, call.embeddings)

\* Collection.update
update(c, n) ==
    /\ coll.live /\ CanStart(c)
    /\ \E ids \in IdsInputs(n), embeddings \in EmbeddingsInputs(n),
          metadatas \in MetadatasInputs(n), documents \in DocumentsInputs(n) :
          calls' = [calls EXCEPT ![c] = updateBegin(BatchCall("update", ids, embeddings, metadatas, documents))]
    /\ UNCHANGED <<params, api, coll, made>>

\* Collection.query, lines 784-802: the request, once the embeddings are settled.
querySend(call, queryEmbeddings) ==
    IF queryEmbeddings = Undef THEN Thrown(call, InternalError)
    ELSE Sent(call, [Request("query", coll.id, CollectionOptions) EXCEPT
                        !.query_embeddings = toArrayOfArrays(queryEmbeddings)])

\* A variant that turns to the embedding function whenever queryEmbeddings is
\* undefined, without the check of lines 768-771.
queryBeginAlwaysGenerates(call) ==
    IF call.queryEmbeddings = Undef
    THEN (IF coll.embeddingFunction # Undef
          THEN Generating(call, toArray(call.queryTexts))
          ELSE Thrown(call, ConfigurationError))
    ELSE querySend(call, call.queryEmbeddings)

\* A variant without the check of lines 768-771.
queryBeginUnguarded(call) ==
    IF call.queryEmbeddings = Undef /\ call.queryTexts # Undef
    THEN (IF coll.embeddingFunction # Undef
          THEN Generating(call, toArray(call.queryTexts))
          ELSE Thrown(call, ConfigurationError))
    ELSE querySend(call, call.queryEmbeddings)

\* A variant that embeds queryTexts whenever they are given.
queryBeginTextsFirst(call) ==
    IF call.queryEmbeddings = Undef /\ call.queryTexts = Undef
    THEN Thrown(call, QueryNothingError)
    ELSE IF call.queryTexts # Undef
    THEN (IF coll.embeddingFunction # Undef
          THEN Generating(call, toArray(call.queryTexts))
          ELSE Thrown(call, ConfigurationError))
    ELSE querySend(call, call.queryEmbeddings)

\* Collection.query, lines 767-783.
queryBegin(call) ==
    IF call.queryEmbeddings = Undef /\ call.queryTexts = Undef
    THEN Thrown(call, QueryNothingError)
    ELSE IF call.queryEmbeddings = Undef /\ call.queryTexts # Undef
    THEN (IF coll.embeddingFunction # Undef
          THEN Generating(call, toArray(call.queryTexts))
          ELSE Thrown(call, ConfigurationError))
    ELSE querySend(call, call.queryEmbeddings)

\* Collection.query
query(c, n) ==
    /\ coll.live /\ CanStart(c)
    /\ \E queryEmbeddings \in EmbeddingsInputs(n), queryTexts \in DocumentsInputs(n) :
          calls' = [calls EXCEPT ![c] =
                       queryBegin([NewCall("query") EXCEPT !.queryEmbeddings = queryEmbeddings,
                                                           !.queryTexts = queryTexts])]
    /\ UNCHANGED <<params, api, coll, made>>

\* The batches and queries of callers that run at the same time: the add of the
\* local test script, documents to embed, a duplicate id, metadata alone.
ConcurrentBatches ==
    { [ids |-> Str("a"), embeddings |-> V1, metadatas |-> M1, documents |-> Undef],
      [ids |-> Arr(<<Str("a"), Str("b")>>), embeddings |-> Undef, metadatas |-> Undef,
       documents |-> Arr(<<D1, D2>>)],
      [ids |-> Arr(<<Str("a"), Str("a")>>), embeddings |-> Arr(<<V1, V2>>), metadatas |-> Undef,
       documents |-> Undef],
      [ids |-> Arr(<<Str("a")>>), embeddings |-> Undef, metadatas |-> Arr(<<M1>>),
       documents |-> Undef] }
ConcurrentQueries ==
    { [queryEmbeddings |-> V1, queryTexts |-> Undef],
      [queryEmbeddings |-> Undef, queryTexts |-> D1] }

\* Collection.add, called with one of the given batches.
addOf(c, batches) ==
    /\ coll.live /\ CanStart(c)
    /\ \E b \in batches :
          calls' = [calls EXCEPT ![c] =
                       insert(BatchCall("add", b.ids, b.embeddings, b.metadatas, b.documents))]
    /\ UNCHANGED <<params, api, coll, made>>

\* Collection.update, called with one of the given batches.
updateOf(c, batches) ==
    /\ coll.live /\ CanStart(c)
    /\ \E b \in batches :
          calls' = [calls EXCEPT ![c] =
                       updateBegin(BatchCall("update", b.ids, b.embeddings, b.metadatas, b.documents))]
    /\ UNCHANGED <<params, api, coll, made>>

\* Collection.query, called with one of the given queries.
queryOf(c, queries) ==
    /\ coll.live /\ CanStart(c)
    /\ \E q \in queries :
          calls' = [calls EXCEPT ![c] =
                       queryBegin([NewCall("query") EXCEPT !.queryEmbeddings = q.queryEmbeddings,
                                                           !.queryTexts = q.queryTexts])]
    /\ UNCHANGED <<params, api, coll, made>>

\* What the call does with the embeddings once generate has returned them.
afterGenerate(call, embeddings) ==
    CASE call.op \in {"add", "upsert"} -> insertValidated(call, embeddings)
      [] call.op = "validate" -> validateReturns(call, embeddings)
      [] call.op = "update" -> updateSend(call, embeddings)
      [] OTHER -> querySend(call, embeddings)

\* this.embeddingFunction.generate(texts) resolves: one vector per text, in order.
generateReturns(c) ==
    /\ calls[c].pc = "generate"
    /\ LET texts == calls[c].generated[Len(calls[c].generated)]
       IN  \E vectors \in SeqsOfLen(Vectors, Length(texts)) :
              calls' = [calls EXCEPT ![c] =
                           afterGenerate([calls[c] EXCEPT !.returned = Arr(vectors)], Arr(vectors))]
    /\ UNCHANGED <<params, api, coll, made>>

\* this.embeddingFunction.generate(texts) rejects: the await throws.
generateFails(c) ==
    /\ calls[c].pc = "generate"
    /\ calls' = [calls EXCEPT ![c] = Thrown(calls[c], GenerateError)]
    /\ UNCHANGED <<params, api, coll, made>>

(***************************************************************************)
(* The other Collection operations.  Arguments handed through untouched    *)
(* (where, whereDocument, include, limit, offset, nResults) are left out.  *)
(***************************************************************************)
\* Collection.count
count(c) ==
    /\ coll.live /\ CanStart(c)
    /\ calls' = [calls EXCEPT ![c] = Sent(NewCall("count"), Request("count", coll.id, CollectionOptions))]
    /\ UNCHANGED <<params, api, coll, made>>

\* Collection.peek
peek(c) ==
    /\ coll.live /\ CanStart(c)
    /\ calls' = [calls EXCEPT ![c] = Sent(NewCall("peek"), Request("aGet", coll.id, CollectionOptions))]
    /\ UNCHANGED <<params, api, coll, made>>

\* Collection.get
get(c, n) ==
    /\ coll.live /\ CanStart(c)
    /\ \E ids \in {Undef} \cup IdsInputs(n) :
          calls' = [calls EXCEPT ![c] =
                       Sent([NewCall("get") EXCEPT !.ids = ids],
                            [Request("aGet", coll.id, CollectionOptions) EXCEPT
                                !.ids = IF ids # Undef THEN toArray(ids) ELSE Undef])]
    /\ UNCHANGED <<params, api, coll, made>>

\* Collection.delete
delete(c, n) ==
    /\ coll.live /\ CanStart(c)
    /\ \E ids \in {Undef} \cup IdsInputs(n) :
          calls' = [calls EXCEPT ![c] =
                       Sent([NewCall("delete") EXCEPT !.ids = ids],
                            [Request("aDelete", coll.id, CollectionOptions) EXCEPT
                                !.ids = IF ids # Undef THEN toArray(ids) ELSE Undef])]
    /\ UNCHANGED <<params, api, coll, made>>

\* Collection.modify, lines 573-583: the request.
modify(c) ==
    /\ coll.live /\ CanStart(c)
    /\ \E name \in {Undef, Str("")} \cup Names, metadata \in CollectionMetadatas :
          calls' = [calls EXCEPT ![c] =
                       Sent([NewCall("modify") EXCEPT !.name = name, !.metadata = metadata],
                            [Request("updateCollection", coll.id, CollectionOptions) EXCEPT
                                !.name = name, !.metadata = metadata])]
    /\ UNCHANGED <<params, api, coll, made>>

\* The service takes up the request of a modify and applies it to its
\* collection: of the calls in flight, this one's is now the last applied.
\* Its answer reaches the caller in modifyContinues; a request it does not
\* apply is answered with a failure.
serviceApplies(c) ==
    /\ calls[c].pc = "request" /\ calls[c].op = "modify" /\ ~calls[c].applied
    /\ calls' = [d \in DOMAIN calls |->
                     IF d = c THEN [calls[c] EXCEPT !.applied = TRUE, !.applied_last = TRUE]
                     ELSE [calls[d] EXCEPT !.applied_last = FALSE]]
    /\ UNCHANGED <<params, api, coll, made>>

\* A variant with "??" in the place of "||": an empty name is taken over.
modifyContinuesCoalesces(c) ==
    /\ calls[c].pc = "request" /\ calls[c].op = "modify"
    /\ \E error \in (IF calls[c].applied THEN {NoError} ELSE ServiceErrors) :
          calls' = [calls EXCEPT ![c].pc = "done", ![c].response = error,
                                    ![c].result = Result("resolved", error)]
    /\ coll' = [coll EXCEPT !.name = Coalesce(calls[c].name, coll.name),
                            !.metadata = Coalesce(calls[c].metadata, coll.metadata)]
    /\ UNCHANGED <<params, api, made>>

\* A variant whose setters take the arguments as passed, without "|| this.name"
\* and "|| this.metadata".
modifyContinuesOverwrites(c) ==
    /\ calls[c].pc = "request" /\ calls[c].op = "modify"
    /\ \E error \in (IF calls[c].applied THEN {NoError} ELSE ServiceErrors) :
          calls' = [calls EXCEPT ![c].pc = "done", ![c].response = error,
                                    ![c].result = Result("resolved", error)]
    /\ coll' = [coll EXCEPT !.name = calls[c].name, !.metadata = calls[c].metadata]
    /\ UNCHANGED <<params, api, made>>

\* Collection.modify, lines 585-588, after the await: handleError has turned a
\* failure into a value, so the setters run whatever the service answered.
modifyContinues(c) ==
    /\ calls[c].pc = "request" /\ calls[c].op = "modify"
    /\ \E error \in (IF calls[c].applied THEN {NoError} ELSE ServiceErrors) :
          calls' = [calls EXCEPT ![c].pc = "done", ![c].response = error,
                                    ![c].result = Result("resolved", error)]
    /\ coll' = [coll EXCEPT !.name = OrElse(calls[c].name, coll.name),
                            !.metadata = OrElse(calls[c].metadata, coll.metadata)]
    /\ UNCHANGED <<params, api, made>>

(***************************************************************************)
(* The client's operations.                                                *)
(***************************************************************************)
ClientCall(c, op, ep) ==
    /\ CanStart(c)
    /\ calls' = [calls EXCEPT ![c] = Sent(NewCall(op), Request(ep, Undef, ClientOptions))]
    /\ UNCHANGED <<params, api, coll, made>>

\* ChromaClientExtended.reset
reset(c) == ClientCall(c, "reset", "reset")
\* ChromaClientExtended.version
version(c) == ClientCall(c, "version", "version")
\* ChromaClientExtended.heartbeat
heartbeat(c) == ClientCall(c, "heartbeat", "heartbeat")
\* ChromaClientExtended.listCollections
listCollections(c) == ClientCall(c, "listCollections", "listCollections")

\* ChromaClientExtended.persist
persist(c) ==
    /\ CanStart(c)
    /\ calls' = [calls EXCEPT ![c] = Thrown(NewCall("persist"), NotImplementedError)]
    /\ UNCHANGED <<params, api, coll, made>>

\* createCollection and getOrCreateCollection, up to the await.
CreateCall(c, op, get_or_create) ==
    /\ CanStart(c)
    /\ \E name \in Names, metadata \in CollectionMetadatas, embeddingFunction \in EmbeddingFunctions :
          calls' = [calls EXCEPT ![c] =
                       Sent([NewCall(op) EXCEPT !.name = name, !.metadata = metadata,
                                                !.embeddingFunction = embeddingFunction],
                            [Request("createCollection", Undef, ClientOptions) EXCEPT
                                !.name = name, !.metadata = metadata,
                                !.get_or_create = get_or_create])]
    /\ UNCHANGED <<params, api, coll, made>>

\* ChromaClientExtended.createCollection
createCollection(c) == CreateCall(c, "createCollection", FALSE)
\* ChromaClientExtended.getOrCreateCollection
getOrCreateCollection(c) == CreateCall(c, "getOrCreateCollection", TRUE)

\* ChromaClientExtended.getCollection, up to the await.
getCollection(c) ==
    /\ CanStart(c)
    /\ \E name \in Names, embeddingFunction \in EmbeddingFunctions :
          calls' = [calls EXCEPT ![c] =
                       Sent([NewCall("getCollection") EXCEPT !.name = name,
                                                             !.embeddingFunction = embeddingFunction],
                            Request("getCollection", name, ClientOptions))]
    /\ UNCHANGED <<params, api, coll, made>>

\* ChromaClientExtended.deleteCollection
deleteCollection(c) ==
    /\ CanStart(c)
    /\ \E name \in Names :
          calls' = [calls EXCEPT ![c] =
                       Sent([NewCall("deleteCollection") EXCEPT !.name = name],
                            Request("deleteCollection", name, ClientOptions))]
    /\ UNCHANGED <<params, api, coll, made>>

CollectionOps == {"createCollection", "getOrCreateCollection", "getCollection"}
\* Operations whose request ends in .then(handleSuccess).catch(handleError).
CaughtOps == {"add", "upsert", "update", "query", "get", "delete", "deleteCollection"}

\* A variant that builds the Collection with the answer's name where its id
\* belongs.
collectionReturnedNameAsId(c) ==
    /\ calls[c].pc = "request" /\ calls[c].op \in CollectionOps
    /\ \E id \in ServiceIds, name \in Names, metadata \in CollectionMetadatas :
          /\ coll' = CASE calls[c].op = "createCollection" ->
                            Collection(calls[c].name, name, calls[c].metadata, calls[c].embeddingFunction)
                       [] calls[c].op = "getOrCreateCollection" ->
                            Collection(calls[c].name, name, metadata, calls[c].embeddingFunction)
                       [] OTHER ->
                            Collection(name, name, metadata, calls[c].embeddingFunction)
          /\ calls' = [calls EXCEPT ![c].pc = "done", ![c].answer = Answer(name, id, metadata),
                                    ![c].result = Result("resolved", NoError)]
    /\ made' = coll'
    /\ UNCHANGED <<params, api>>

\* createCollection, getOrCreateCollection, getCollection after the await, the
\* service having answered with the collection: new Collection(...).
collectionReturned(c) ==
    /\ calls[c].pc = "request" /\ calls[c].op \in CollectionOps
    /\ \E id \in ServiceIds, name \in Names, metadata \in CollectionMetadatas :
          /\ coll' = CASE calls[c].op = "createCollection" ->
                            Collection(calls[c].name, id, calls[c].metadata, calls[c].embeddingFunction)
                       [] calls[c].op = "getOrCreateCollection" ->
                            Collection(calls[c].name, id, metadata, calls[c].embeddingFunction)
                       [] OTHER ->
                            Collection(name, id, metadata, calls[c].embeddingFunction)
          /\ calls' = [calls EXCEPT ![c].pc = "done", ![c].answer = Answer(name, id, metadata),
                                    ![c].result = Result("resolved", NoError)]
    /\ made' = coll'
    /\ UNCHANGED <<params, api>>

\* The service answers a request with success (modify and the collection
\* getters have their own continuations).
serviceResolves(c) ==
    /\ calls[c].pc = "request" /\ calls[c].op \notin CollectionOps \cup {"modify"}
    /\ calls' = [calls EXCEPT ![c].pc = "done", ![c].result = Result("resolved", NoError)]
    /\ UNCHANGED <<params, api, coll, made>>

\* A variant that sends the request once more when the service has failed.
serviceRejectsRetries(c) ==
    /\ calls[c].pc = "request" /\ calls[c].op # "modify"
    /\ \E error \in ServiceErrors :
          calls' = [calls EXCEPT ![c] =
                       IF Len(calls[c].sent) = 1
                       THEN [Sent(calls[c], calls[c].sent[1]) EXCEPT !.response = error]
                       ELSE [calls[c] EXCEPT !.pc = "done", !.response = error,
                                             !.result = IF calls[c].op \in CaughtOps
                                                        THEN Result("resolved", error)
                                                        ELSE Result("rejected", error)]]
    /\ UNCHANGED <<params, api, coll, made>>

\* A variant that reports every failure of the service under one message.
serviceRejectsGeneric(c) ==
    /\ calls[c].pc = "request" /\ calls[c].op # "modify"
    /\ \E error \in ServiceErrors :
          calls' = [calls EXCEPT ![c].pc = "done", ![c].response = error,
                                    ![c].result = IF calls[c].op \in CaughtOps
                                                  THEN Result("resolved", ServiceError)
                                                  ELSE Result("rejected", ServiceError)]
    /\ UNCHANGED <<params, api, coll, made>>

\* The service answers a request with a failure: handleError hands it back as
\* {error}, which the collection getters throw and the caught operations
\* return; without a catch the call rejects.
serviceRejects(c) ==
    /\ calls[c].pc = "request" /\ calls[c].op # "modify"
    /\ \E error \in ServiceErrors :
          calls' = [calls EXCEPT ![c].pc = "done", ![c].response = error,
                                    ![c].result = IF calls[c].op \in CaughtOps
                                                  THEN Result("resolved", error)
                                                  ELSE Result("rejected", error)]
    /\ UNCHANGED <<params, api, coll, made>>

(***************************************************************************)
(* Specifications.                                                         *)
(***************************************************************************)
Callers == {"p"}

\* After new ChromaClientExtended({path, fetchOptions}).
Init ==
    /\ params \in [path : Paths, fetchOptions : FetchOptions]
    /\ api = constructor(params.path, params.fetchOptions)
    /\ coll = NoCollection
    /\ made = coll
    /\ calls = [c \in Callers |-> IdleCall]

Next ==
    \/ \E c \in DOMAIN calls : reset(c)
    \/ \E c \in DOMAIN calls : version(c)
    \/ \E c \in DOMAIN calls : heartbeat(c)
    \/ \E c \in DOMAIN calls : persist(c)
    \/ \E c \in DOMAIN calls : listCollections(c)
    \/ \E c \in DOMAIN calls : createCollection(c)
    \/ \E c \in DOMAIN calls : getOrCreateCollection(c)
    \/ \E c \in DOMAIN calls : getCollection(c)
    \/ \E c \in DOMAIN calls : deleteCollection(c)
    \/ \E c \in DOMAIN calls : collectionReturned(c)
    \/ \E c \in DOMAIN calls : add(c, ClientMaxLen)
    \/ \E c \in DOMAIN calls : upsert(c, ClientMaxLen)
    \/ \E c \in DOMAIN calls : update(c, ClientMaxLen)
    \/ \E c \in DOMAIN calls : query(c, ClientMaxLen)
    \/ \E c \in DOMAIN calls : get(c, ClientMaxLen)
    \/ \E c \in DOMAIN calls : delete(c, ClientMaxLen)
    \/ \E c \in DOMAIN calls : count(c)
    \/ \E c \in DOMAIN calls : peek(c)
    \/ \E c \in DOMAIN calls : modify(c)
    \/ \E c \in DOMAIN calls : serviceApplies(c)
    \/ \E c \in DOMAIN calls : modifyContinues(c)
    \/ \E c \in DOMAIN calls : generateReturns(c)
    \/ \E c \in DOMAIN calls : generateFails(c)
    \/ \E c \in DOMAIN calls : serviceResolves(c)
    \/ \E c \in DOMAIN calls : serviceRejects(c)
    \/ \E c \in DOMAIN calls : settle(c)

\* The whole life cycle: a client, the collections it hands out, every operation.
Spec == Init /\ [][Next]_vars

\* A client and a Collection obtained from it, with or without an embedding function.
InitBatch ==
    /\ params \in [path : {Undef}, fetchOptions : FetchOptions]
    /\ api = constructor(params.path, params.fetchOptions)
    /\ coll \in {Collection(Str("n1"), Str("id1"), Undef, ef) : ef \in EmbeddingFunctions}
    /\ made = coll
    /\ calls = [c \in Callers |-> IdleCall]

NextBatch ==
    \/ \E c \in DOMAIN calls : add(c, MaxLen)
    \/ \E c \in DOMAIN calls : upsert(c, MaxLen)
    \/ \E c \in DOMAIN calls : update(c, MaxLen)
    \/ \E c \in DOMAIN calls : query(c, MaxLen)
    \/ \E c \in DOMAIN calls : generateReturns(c)
    \/ \E c \in DOMAIN calls : generateFails(c)
    \/ \E c \in DOMAIN calls : serviceResolves(c)
    \/ \E c \in DOMAIN calls : serviceRejects(c)
    \/ \E c \in DOMAIN calls : settle(c)

\* The batch operations of one Collection, over every batch up to MaxLen.
SpecBatch == InitBatch /\ [][NextBatch]_vars

NextValidate ==
    \/ \E c \in DOMAIN calls : validate(c, MaxLen)
    \/ \E c \in DOMAIN calls : generateReturns(c)
    \/ \E c \in DOMAIN calls : generateFails(c)
    \/ \E c \in DOMAIN calls : settle(c)

\* Collection.validate applied to every batch up to MaxLen, with its flag
\* true (as add and upsert call it) and false.
SpecValidate == InitBatch /\ [][NextValidate]_vars

\* The methods are async: a second caller can start a call while the first
\* one's call awaits the embedding function or the service.
ConcurrentCallers == {"p", "q"}

\* A client and one Collection obtained from it, used by both callers.
InitConcurrent ==
    /\ params = [path |-> Undef, fetchOptions |-> Headers]
    /\ api = constructor(params.path, params.fetchOptions)
    /\ coll \in {Collection(Str("n1"), Str("id1"), Undef, ef) : ef \in EmbeddingFunctions}
    /\ made = coll
    /\ calls = [c \in ConcurrentCallers |-> IdleCall]

NextConcurrent ==
    \/ \E c \in DOMAIN calls : addOf(c, ConcurrentBatches)
    \/ \E c \in DOMAIN calls : updateOf(c, ConcurrentBatches)
    \/ \E c \in DOMAIN calls : queryOf(c, ConcurrentQueries)
    \/ \E c \in DOMAIN calls : modify(c)
    \/ \E c \in DOMAIN calls : serviceApplies(c)
    \/ \E c \in DOMAIN calls : modifyContinues(c)
    \/ \E c \in DOMAIN calls : generateReturns(c)
    \/ \E c \in DOMAIN calls : generateFails(c)
    \/ \E c \in DOMAIN calls : serviceResolves(c)
    \/ \E c \in DOMAIN calls : serviceRejects(c)
    \/ \E c \in DOMAIN calls : settle(c)

\* Two callers whose calls on one Collection interleave at every await.
SpecConcurrent == InitConcurrent /\ [][NextConcurrent]_vars

(***************************************************************************)
(* Vocabulary of the properties.                                           *)
(***************************************************************************)
InsertCalls == {c \in DOMAIN calls : calls[c].op \in {"add", "upsert"}}
UpdateCalls == {c \in DOMAIN calls : calls[c].op = "update"}
QueryCalls == {c \in DOMAIN calls : calls[c].op = "query"}
\* The operations a Collection sends requests for.
CollectionMethods == {"add", "upsert", "update", "query", "get", "delete", "count", "peek", "modify"}
ValidateCalls == {c \in DOMAIN calls : calls[c].op = "validate"}
Failed(call) == call.pc = "done" /\ call.result.kind = "rejected"
FailedWith(call, error) == Failed(call) /\ call.result.error = error
\* The elements of a scalar-or-array argument, in order.
Elements(x) == IF x.k = "array" THEN x.e ELSE <<x>>
\* The vectors of an embeddings argument: a flat vector is one vector.
VectorsOf(x) == IF x.k = "array" /\ x.e # <<>> /\ x.e[1].k = "array" THEN x.e ELSE <<x>>
\* The values that stand at more than one place of q.
RepeatedValues(q) == {q[i] : i \in {i \in 1..Len(q) : \E j \in 1..Len(q) : j # i /\ q[j] = q[i]}}
HasDuplicate(q) == \E i, j \in 1..Len(q) : i < j /\ q[i] = q[j]
AllStrings(q) == \A i \in 1..Len(q) : q[i].k = "string"
\* The embeddings the call works with: the caller's, else what generate returned.
EmbeddingsOf(call) == IF call.embeddings # Undef THEN call.embeddings ELSE call.returned
\* The error the call has thrown, if any.
ThrownError(call) == IF Failed(call) THEN call.result.error ELSE NoError
\* The call's operation run by itself in the present state, no other call in
\* between its steps, on the same arguments and with the same answer of the
\* embedding function, up to its request.
RunAlone(call) ==
    LET begun ==
            CASE call.op = "add" ->
                   insert(BatchCall("add", call.ids, call.embeddings, call.metadatas, call.documents))
              [] call.op = "update" ->
                   updateBegin(BatchCall("update", call.ids, call.embeddings, call.metadatas,
                                         call.documents))
              [] call.op = "query" ->
                   queryBegin([NewCall("query") EXCEPT !.queryEmbeddings = call.queryEmbeddings,
                                                       !.queryTexts = call.queryTexts])
              [] OTHER ->
                   Sent([NewCall("modify") EXCEPT !.name = call.name, !.metadata = call.metadata],
                        [Request("updateCollection", made.id, api.options) EXCEPT
                            !.name = call.name, !.metadata = call.metadata])
    IN  IF begun.pc # "generate" \/ call.pc = "generate" THEN begun
        ELSE IF call.returned # Undef
        THEN afterGenerate([begun EXCEPT !.returned = call.returned], call.returned)
        ELSE Thrown(begun, GenerateError)
\* A present field whose normalized length is not that of ids.
FieldLengthDiffers(call) ==
    LET n == Len(Elements(call.ids))
    IN  \/ call.embeddings # Undef /\ Len(VectorsOf(call.embeddings)) # n
        \/ call.metadatas # Undef /\ Len(Elements(call.metadatas)) # n
        \/ call.documents # Undef /\ Len(Elements(call.documents)) # n
\* A batch that breaks a rule on its shape: a non-string id, a present field
\* not as long as ids, a duplicate id.
StructuralViolation(call) ==
    \/ ~AllStrings(Elements(call.ids))
    \/ FieldLengthDiffers(call)
    \/ HasDuplicate(Elements(call.ids))

(***************************************************************************)
(* C1.  Every request any operation of the client or of a Collection sends *)
(* carries the fetchOptions given to the constructor, or an empty options  *)
(* object when none was given.                                             *)
(***************************************************************************)
C1_RequestsCarryFetchOptions ==
    \A c \in DOMAIN calls : \A i \in 1..Len(calls[c].sent) :
        calls[c].sent[i].options =
            (IF params.fetchOptions = Undef THEN EmptyObject ELSE params.fetchOptions)

\* A Collection's add has sent its request under a client built with headers.
C1_Witness ==
    \E c \in DOMAIN calls :
        /\ calls[c].op = "add" /\ calls[c].sent # <<>>
        /\ params.fetchOptions = Headers
        /\ calls[c].sent[1].options = Headers

(***************************************************************************)
(* C2.  Every payload add or upsert transmits has ids and embeddings       *)
(* arrays, and metadatas and documents arrays when present, all as long as *)
(* ids.                                                                    *)
(***************************************************************************)
C2_PayloadLengthsEqual ==
    \A c \in InsertCalls : \A i \in 1..Len(calls[c].sent) :
        LET r == calls[c].sent[i]
        IN  /\ r.ids.k = "array" /\ r.embeddings.k = "array"
            /\ Len(r.embeddings.e) = Len(r.ids.e)
            /\ r.metadatas # Undef => r.metadatas.k = "array" /\ Len(r.metadatas.e) = Len(r.ids.e)
            /\ r.documents # Undef => r.documents.k = "array" /\ Len(r.documents.e) = Len(r.ids.e)

\* An upsert has transmitted two rows with all four columns.
C2_Witness ==
    \E c \in InsertCalls :
        /\ calls[c].op = "upsert" /\ calls[c].sent # <<>>
        /\ Len(calls[c].sent[1].ids.e) = 2
        /\ calls[c].sent[1].metadatas # Undef /\ calls[c].sent[1].documents # Undef

(***************************************************************************)
(* C3.  As claimed: every add or upsert whose ids hold a duplicate fails   *)
(* with the uniqueness error, whatever the other fields hold.              *)
(***************************************************************************)
C3_DuplicateAlwaysUniquenessError ==
    \A c \in InsertCalls :
        (HasDuplicate(Elements(calls[c].ids)) /\ calls[c].pc = "done")
            => /\ Failed(calls[c])
               /\ calls[c].result.error.msg = UniquenessError(<<>>).msg

(***************************************************************************)
(* C3, amended.  Every add or upsert whose ids hold a duplicate fails and  *)
(* sends nothing; it fails with the uniqueness error when the earlier      *)
(* steps pass: embeddings are there (given, or generated from documents),  *)
(* every id is a string and every present field is as long as ids.         *)
(***************************************************************************)
C3_DuplicateFails ==
    \A c \in InsertCalls :
        HasDuplicate(Elements(calls[c].ids))
            => /\ calls[c].sent = <<>>
               /\ calls[c].pc = "done" =>
                    /\ Failed(calls[c])
                    /\ ( /\ EmbeddingsOf(calls[c]) # Undef
                         /\ AllStrings(Elements(calls[c].ids))
                         /\ ~FieldLengthDiffers(calls[c]) )
                       => calls[c].result.error.msg = UniquenessError(<<>>).msg

\* An add of ids ["a", "a"] with two vectors has failed with the uniqueness error.
C3_Witness ==
    \E c \in InsertCalls :
        /\ calls[c].ids = Arr(<<Str("a"), Str("a")>>)
        /\ calls[c].embeddings = Arr(<<V1, V2>>)
        /\ FailedWith(calls[c], UniquenessError(<<Str("a")>>))

(***************************************************************************)
(* C4.  An add or upsert given neither embeddings nor documents fails with *)
(* the missing-input error; the embedding function and the service are not *)
(* called.                                                                 *)
(***************************************************************************)
C4_MissingInput ==
    \A c \in InsertCalls :
        (calls[c].embeddings = Undef /\ calls[c].documents = Undef)
            => /\ FailedWith(calls[c], MissingInputError)
               /\ calls[c].generated = <<>> /\ calls[c].sent = <<>>

\* An upsert with ids and metadatas only has failed.
C4_Witness ==
    \E c \in InsertCalls :
        /\ calls[c].op = "upsert"
        /\ calls[c].embeddings = Undef /\ calls[c].documents = Undef
        /\ calls[c].metadatas # Undef /\ coll.embeddingFunction # Undef
        /\ Failed(calls[c])

(***************************************************************************)
(* C5.  An add or upsert given documents and no embeddings, on a           *)
(* collection without embedding function, fails with the configuration     *)
(* error and sends nothing.                                                *)
(***************************************************************************)
C5_NoEmbeddingFunction ==
    \A c \in InsertCalls :
        (calls[c].documents # Undef /\ calls[c].embeddings = Undef /\ coll.embeddingFunction = Undef)
            => /\ FailedWith(calls[c], ConfigurationError)
               /\ calls[c].sent = <<>>

\* An add of one well-formed document row has failed for want of an embedding function.
C5_Witness ==
    \E c \in InsertCalls :
        /\ calls[c].op = "add" /\ coll.embeddingFunction = Undef
        /\ calls[c].ids = Str("a") /\ calls[c].documents = D1 /\ calls[c].embeddings = Undef
        /\ Failed(calls[c])

(***************************************************************************)
(* C6.  An add or upsert given documents and no embeddings, on a           *)
(* collection with an embedding function: generate is called exactly once, *)
(* on the documents as a sequence (a lone document wrapped); a request is  *)
(* sent only once generate has returned, and its embeddings are the        *)
(* returned sequence.                                                      *)
(***************************************************************************)
C6_GenerateThenSend ==
    \A c \in InsertCalls :
        (calls[c].documents # Undef /\ calls[c].embeddings = Undef /\ coll.embeddingFunction # Undef)
            => /\ calls[c].generated = <<Arr(Elements(calls[c].documents))>>
               /\ calls[c].sent # <<>> =>
                    /\ calls[c].returned # Undef
                    /\ calls[c].sent[1].embeddings = calls[c].returned

\* An add of two documents has sent the two vectors generate returned, V2 first.
C6_Witness ==
    \E c \in InsertCalls :
        /\ calls[c].documents = Arr(<<D1, D2>>) /\ calls[c].embeddings = Undef
        /\ calls[c].returned = Arr(<<V2, V1>>)
        /\ calls[c].sent # <<>> /\ calls[c].sent[1].embeddings = Arr(<<V2, V1>>)

(***************************************************************************)
(* C7.  As claimed: every add or upsert in which a present field is not as *)
(* long as ids fails with the length-mismatch error.                       *)
(***************************************************************************)
C7_MismatchAlwaysLengthError ==
    \A c \in InsertCalls :
        (FieldLengthDiffers(calls[c]) /\ calls[c].pc = "done")
            => /\ Failed(calls[c])
               /\ calls[c].result.error = LengthError

(***************************************************************************)
(* C7, amended.  Every add or upsert in which a present field is not as    *)
(* long as ids fails and sends nothing; it fails with the length-mismatch  *)
(* error when the earlier steps pass: embeddings are there (given, or      *)
(* generated from documents) and every id is a string.                     *)
(***************************************************************************)
C7_MismatchFails ==
    \A c \in InsertCalls :
        FieldLengthDiffers(calls[c])
            => /\ calls[c].sent = <<>>
               /\ calls[c].pc = "done" =>
                    /\ Failed(calls[c])
                    /\ (EmbeddingsOf(calls[c]) # Undef /\ AllStrings(Elements(calls[c].ids)))
                       => calls[c].result.error = LengthError

\* An add of ids ["a", "b"] with two vectors and one metadata has failed on the lengths.
C7_Witness ==
    \E c \in InsertCalls :
        /\ calls[c].ids = Arr(<<Str("a"), Str("b")>>)
        /\ calls[c].embeddings = Arr(<<V1, V2>>)
        /\ calls[c].metadatas = Arr(<<M1>>)
        /\ FailedWith(calls[c], LengthError)

(***************************************************************************)
(* C8.  An add or upsert of one row gives the same outcome and payload     *)
(* whether id, vector and metadata are passed bare or each wrapped in a    *)
(* one-element array: a string id sends the three one-element arrays, any  *)
(* other id fails on its type at index 0.  And a field passed as an array  *)
(* (for embeddings: an array of vectors) is transmitted as it was passed.  *)
(***************************************************************************)
C8_ScalarAsWrapped ==
    \A c \in InsertCalls :
        LET call == calls[c]
        IN  /\ \A id \in IdAtoms, v \in Vectors :
                 ( /\ call.ids \in {id, Arr(<<id>>)}
                   /\ call.embeddings \in {v, Arr(<<v>>)}
                   /\ call.metadatas \in {M1, Arr(<<M1>>)}
                   /\ call.documents = Undef )
                 => IF id.k = "string"
                    THEN /\ call.pc \in {"request", "done"}
                         /\ ~Failed(call)
                         /\ Len(call.sent) = 1
                         /\ call.sent[1].ids = Arr(<<id>>)
                         /\ call.sent[1].embeddings = Arr(<<v>>)
                         /\ call.sent[1].metadatas = Arr(<<M1>>)
                         /\ call.sent[1].documents = Undef
                    ELSE /\ FailedWith(call, TypeError(id.k, 0))
                         /\ call.sent = <<>>
            /\ call.sent # <<>> =>
                 /\ call.ids.k = "array" => call.sent[1].ids = call.ids
                 /\ (call.embeddings.k = "array" /\ VectorsOf(call.embeddings) = call.embeddings.e)
                        => call.sent[1].embeddings = call.embeddings
                 /\ call.metadatas.k = "array" => call.sent[1].metadatas = call.metadatas
                 /\ call.documents.k = "array" => call.sent[1].documents = call.documents

\* The add of the local test script, all bare: { ids: "a", embeddings: V1, metadatas: M1 }.
C8_Witness ==
    \E c \in InsertCalls :
        /\ calls[c].op = "add"
        /\ calls[c].ids = Str("a") /\ calls[c].embeddings = V1 /\ calls[c].metadatas = M1
        /\ calls[c].documents = Undef
        /\ calls[c].sent # <<>> /\ calls[c].sent[1].ids = Arr(<<Str("a")>>)
        /\ calls[c].sent[1].embeddings = Arr(<<V1>>)

(***************************************************************************)
(* C9.  An add or upsert sends its request only when every validation step *)
(* has passed: input present, embedding function there when needed, ids    *)
(* all strings, lengths equal, ids unique.  A call that fails a step sends *)
(* nothing.                                                                *)
(***************************************************************************)
C9_ValidationBeforeRequest ==
    \A c \in InsertCalls :
        LET call == calls[c]
            passes ==
                /\ call.embeddings # Undef \/ call.documents # Undef
                /\ call.embeddings # Undef \/ coll.embeddingFunction # Undef
                /\ EmbeddingsOf(call) # Undef
                /\ AllStrings(Elements(call.ids))
                /\ ~FieldLengthDiffers(call)
                /\ Len(VectorsOf(EmbeddingsOf(call))) = Len(Elements(call.ids))
                /\ ~HasDuplicate(Elements(call.ids))
        IN  /\ call.sent # <<>> => passes
            /\ (call.pc = "done" /\ ~passes) => (Failed(call) /\ call.sent = <<>>)
            /\ Failed(call) => call.sent = <<>>

\* An upsert whose ids hold a number has failed after generate, with nothing sent.
C9_Witness ==
    \E c \in InsertCalls :
        /\ calls[c].op = "upsert" /\ calls[c].returned # Undef
        /\ ~AllStrings(Elements(calls[c].ids))
        /\ Failed(calls[c]) /\ calls[c].sent = <<>>

(***************************************************************************)
(* C10.  As claimed: an update whose ids hold a duplicate or a non-string, *)
(* or in which a present field is not as long as ids, fails with a         *)
(* validation error and sends no request.                                  *)
(***************************************************************************)
C10_UpdateValidates ==
    \A c \in UpdateCalls :
        ( \/ HasDuplicate(Elements(calls[c].ids))
          \/ ~AllStrings(Elements(calls[c].ids))
          \/ FieldLengthDiffers(calls[c]) )
            => /\ calls[c].sent = <<>>
               /\ calls[c].pc = "done" => Failed(calls[c])

(***************************************************************************)
(* C11.  An update in which embeddings, documents and metadatas are all    *)
(* absent fails with its own error, "embeddings, documents, and metadatas  *)
(* cannot all be undefined", which is not the missing-input error of add   *)
(* and upsert; the embedding function is not called and nothing is sent.   *)
(***************************************************************************)
C11_UpdateNothing ==
    \A c \in UpdateCalls :
        LET call == calls[c]
        IN  (call.embeddings = Undef /\ call.documents = Undef /\ call.metadatas = Undef)
                => /\ Failed(call)
                   /\ call.result.error.msg =
                          "embeddings, documents, and metadatas cannot all be undefined"
                   /\ call.result.error # MissingInputError
                   /\ call.generated = <<>>
                   /\ call.sent = <<>>

\* An update with ids only has failed.
C11_Witness ==
    \E c \in UpdateCalls :
        /\ calls[c].ids = Arr(<<Str("a"), Str("b")>>)
        /\ calls[c].embeddings = Undef /\ calls[c].documents = Undef
        /\ calls[c].metadatas = Undef
        /\ Failed(calls[c])

(***************************************************************************)
(* C12.  As claimed: validate called with its flag false, with ids that    *)
(* are unique strings, metadatas as long as ids, and neither embeddings    *)
(* nor documents, returns the normalized sequences; it does not fail.      *)
(***************************************************************************)
C12_MetadataOnlyValidates ==
    \A c \in ValidateCalls :
        LET call == calls[c]
        IN  ( /\ ~call.require_embeddings_or_documents
              /\ AllStrings(Elements(call.ids)) /\ ~HasDuplicate(Elements(call.ids))
              /\ call.metadatas # Undef
              /\ Len(Elements(call.metadatas)) = Len(Elements(call.ids))
              /\ call.embeddings = Undef /\ call.documents = Undef
              /\ call.pc = "done" )
                => /\ ~Failed(call)
                   /\ call.value = Arr(<<Arr(Elements(call.ids)), Undef,
                                          Arr(Elements(call.metadatas)), Undef>>)

(***************************************************************************)
(* C13.  A query in which queryEmbeddings and queryTexts are both absent   *)
(* fails with an error; the embedding function is not called and nothing   *)
(* is sent to the service.                                                 *)
(***************************************************************************)
C13_QueryNothing ==
    \A c \in QueryCalls :
        (calls[c].queryEmbeddings = Undef /\ calls[c].queryTexts = Undef)
            => /\ Failed(calls[c])
               /\ calls[c].result.error # NoError
               /\ calls[c].generated = <<>>
               /\ calls[c].sent = <<>>

\* A query without arguments has failed on a collection that has an embedding function.
C13_Witness ==
    \E c \in QueryCalls :
        /\ calls[c].queryEmbeddings = Undef /\ calls[c].queryTexts = Undef
        /\ coll.embeddingFunction # Undef
        /\ Failed(calls[c])

(***************************************************************************)
(* C14.  As claimed: a query that supplies both queryEmbeddings and        *)
(* queryTexts is rejected and sends no request.                            *)
(***************************************************************************)
C14_BothRejected ==
    \A c \in QueryCalls :
        (calls[c].queryEmbeddings # Undef /\ calls[c].queryTexts # Undef)
            => /\ calls[c].sent = <<>>
               /\ calls[c].pc = "done" => Failed(calls[c])

(***************************************************************************)
(* C14, amended.  A query is accepted when at least one of queryEmbeddings *)
(* and queryTexts is present.  A query that supplies neither is rejected   *)
(* and sends nothing; a query that supplies both is accepted: it does not  *)
(* call the embedding function, leaves queryTexts out, and sends one       *)
(* request that carries the normalized queryEmbeddings.                    *)
(***************************************************************************)
C14_BothAccepted ==
    \A c \in QueryCalls :
        LET call == calls[c]
        IN  /\ (call.queryEmbeddings = Undef /\ call.queryTexts = Undef)
                    => (Failed(call) /\ call.sent = <<>>)
            /\ (call.queryEmbeddings # Undef /\ call.queryTexts # Undef)
                    => /\ ~Failed(call)
                       /\ call.generated = <<>>
                       /\ Len(call.sent) = 1
                       /\ call.sent[1].query_embeddings = Arr(VectorsOf(call.queryEmbeddings))

\* A query with two vectors and two texts has sent the two vectors.
C14_Witness ==
    \E c \in QueryCalls :
        /\ calls[c].queryEmbeddings = Arr(<<V1, V2>>)
        /\ calls[c].queryTexts = Arr(<<D1, D2>>)
        /\ coll.embeddingFunction # Undef
        /\ calls[c].pc = "request"
        /\ calls[c].sent[1].query_embeddings = Arr(<<V1, V2>>)

(***************************************************************************)
(* C15.  As claimed: a query with queryTexts only, on a collection that    *)
(* has an embedding function, invokes it once, on the normalized texts,    *)
(* before the request, and transmits the vectors it returned; on a         *)
(* collection without one it fails with the configuration error and sends  *)
(* nothing.                                                                *)
(***************************************************************************)
C15_QueryTextsOnly ==
    \A c \in QueryCalls :
        LET call == calls[c]
        IN  (call.queryEmbeddings = Undef /\ call.queryTexts # Undef)
                => IF coll.embeddingFunction # Undef
                   THEN /\ call.generated = <<Arr(Elements(call.queryTexts))>>
                        /\ call.sent # <<>> =>
                              /\ call.returned # Undef
                              /\ Len(call.sent) = 1
                              /\ call.sent[1].query_embeddings = call.returned
                   ELSE /\ FailedWith(call, ConfigurationError)
                        /\ call.generated = <<>>
                        /\ call.sent = <<>>

(***************************************************************************)
(* C16.  When the service answers createCollection, getOrCreateCollection  *)
(* or getCollection with a failure, the call fails with an error whose     *)
(* message is the service's error message, unchanged, and no Collection    *)
(* object comes out of it.                                                 *)
(***************************************************************************)
C16_ServiceFailureSurfaces ==
    [][ \A c \in DOMAIN calls :
            ( /\ calls[c].op \in CollectionOps /\ calls[c].pc = "request"
              /\ calls'[c].pc = "done" /\ calls'[c].response # NoError )
                => /\ Failed(calls'[c])
                   /\ calls'[c].result.error.msg = calls'[c].response.msg
                   /\ calls'[c].value = Undef
                   /\ coll' = coll /\ made' = made ]_vars

\* A getCollection that the service answered with "collection not found" has
\* failed with that message, a Collection obtained earlier still being in use.
C16_Witness ==
    \E c \in DOMAIN calls :
        /\ calls[c].op = "getCollection" /\ calls[c].response = NotFoundError
        /\ Failed(calls[c]) /\ calls[c].result.error.msg = "collection not found"
        /\ coll.live

(***************************************************************************)
(* C17.  As claimed: after any sequence of operations the service address, *)
(* the request options, and the Collection's embedding function, name, id  *)
(* and metadata are what the constructors set.                             *)
(***************************************************************************)
C17_NothingChanges ==
    /\ api = constructor(params.path, params.fetchOptions)
    /\ coll = made

(***************************************************************************)
(* C17, amended.  No operation changes the client's service address or     *)
(* request options, nor a Collection's id or embedding function.  A        *)
(* Collection's name and metadata change in modify, and nowhere else:      *)
(* modify sets each to the value it was given when that value is truthy.   *)
(***************************************************************************)
C17_OnlyModifyChanges ==
    [][ /\ api' = api
        /\ api' = constructor(params'.path, params'.fetchOptions)
        /\ coll'.live = made'.live
        /\ coll'.id = made'.id
        /\ coll'.embeddingFunction = made'.embeddingFunction
        /\ coll' # coll =>
              \E c \in DOMAIN calls :
                  /\ calls[c].pc = "request" /\ calls'[c].pc = "done"
                  /\ \/ /\ calls[c].op = "modify"
                        /\ made' = made
                        /\ coll'.name = (IF Truthy(calls[c].name) THEN calls[c].name ELSE coll.name)
                        /\ coll'.metadata = (IF Truthy(calls[c].metadata) THEN calls[c].metadata
                                              ELSE coll.metadata)
                     \/ /\ calls[c].op \in CollectionOps
                        /\ coll' = made' ]_vars

\* A modify has given the Collection another name than its constructor did.
C17_Witness ==
    \E c \in DOMAIN calls :
        /\ calls[c].op = "modify" /\ calls[c].pc = "done"
        /\ calls[c].name = Str("n2") /\ made.name = Str("n1")
        /\ coll.name = Str("n2") /\ coll.id = made.id

(***************************************************************************)
(* C19.  Every operation sends at most one request per call.  A call whose *)
(* request the service has failed, and a call that has thrown a validation *)
(* error, is over: it sends no further request.                            *)
(***************************************************************************)
C19_AtMostOneRequest ==
    [][ \A c \in DOMAIN calls :
            /\ Len(calls'[c].sent) <= 1
            /\ calls[c].response # NoError =>
                  /\ calls[c].pc = "done"
                  /\ calls'[c] = calls[c] \/ calls'[c] = IdleCall
            /\ Failed(calls[c]) =>
                  /\ calls[c].response = NoError => calls[c].sent = <<>>
                  /\ calls'[c] = calls[c] \/ calls'[c] = IdleCall ]_vars

\* An add whose one request the service has failed is over.
C19_Witness ==
    \E c \in DOMAIN calls :
        /\ calls[c].op = "add" /\ calls[c].pc = "done"
        /\ calls[c].response # NoError /\ Len(calls[c].sent) = 1

(***************************************************************************)
(* C20.  When the batch of an add or upsert breaks a rule of validate, the *)
(* error raised is that of the first broken rule in the order: missing     *)
(* input, missing embedding function, non-string id, length mismatch,      *)
(* duplicate id; however many later rules the batch breaks as well.  (A    *)
(* call whose embedding function itself failed raised that failure.)       *)
(***************************************************************************)
C20_EarliestRuleWins ==
    \A c \in InsertCalls :
        LET call == calls[c]
            ids == Elements(call.ids)
            missing == call.embeddings = Undef /\ call.documents = Undef
            unconfigured == /\ call.embeddings = Undef /\ call.documents # Undef
                            /\ coll.embeddingFunction = Undef
            nonString == ~AllStrings(ids)
            mismatch == \/ FieldLengthDiffers(call)
                        \/ /\ EmbeddingsOf(call) # Undef
                           /\ Len(VectorsOf(EmbeddingsOf(call))) # Len(ids)
            duplicate == HasDuplicate(ids)
            msg == call.result.error.msg
        IN  (call.pc = "done" /\ call.result.error # GenerateError) =>
              /\ missing => (Failed(call) /\ msg = MissingInputError.msg)
              /\ (~missing /\ unconfigured) => (Failed(call) /\ msg = ConfigurationError.msg)
              /\ (~missing /\ ~unconfigured /\ nonString)
                    => (Failed(call) /\ msg = TypeError("", 0).msg)
              /\ (~missing /\ ~unconfigured /\ ~nonString /\ mismatch)
                    => (Failed(call) /\ msg = LengthError.msg)
              /\ (~missing /\ ~unconfigured /\ ~nonString /\ ~mismatch /\ duplicate)
                    => (Failed(call) /\ msg = UniquenessError(<<>>).msg)

\* An add whose ids are a string twice, with one vector, has failed with the
\* length error: the batch breaks the length rule and the uniqueness rule.
C20_Witness ==
    \E c \in InsertCalls :
        /\ calls[c].op = "add"
        /\ calls[c].ids = Arr(<<Str("a"), Str("a")>>) /\ calls[c].embeddings = Arr(<<V1>>)
        /\ FailedWith(calls[c], LengthError)

(***************************************************************************)
(* C18.  However the calls of two callers on one client and Collection     *)
(* interleave, what each call does is what its operation does when it runs *)
(* alone on the same arguments: it hands the embedding function the same   *)
(* texts, throws the same error or transmits the same payload; and two     *)
(* calls of one operation on the same arguments, given the same answer by  *)
(* the embedding function, throw the same error or transmit the same       *)
(* payload.                                                                *)
(***************************************************************************)
C18_InterleavingKeepsOutcome ==
    /\ \A c \in DOMAIN calls :
          calls[c].op # "" =>
              /\ calls[c].generated = RunAlone(calls[c]).generated
              /\ calls[c].sent = RunAlone(calls[c]).sent
              /\ ThrownError(calls[c]) = ThrownError(RunAlone(calls[c]))
    /\ \A c, d \in DOMAIN calls :
          ( /\ calls[c].op # "" /\ calls[c].op = calls[d].op
            /\ calls[c].ids = calls[d].ids /\ calls[c].embeddings = calls[d].embeddings
            /\ calls[c].metadatas = calls[d].metadatas /\ calls[c].documents = calls[d].documents
            /\ calls[c].queryEmbeddings = calls[d].queryEmbeddings
            /\ calls[c].queryTexts = calls[d].queryTexts
            /\ calls[c].name = calls[d].name /\ calls[c].metadata = calls[d].metadata
            /\ calls[c].pc # "generate" /\ calls[d].pc # "generate"
            /\ calls[c].returned = calls[d].returned
            /\ (calls[c].result.error = GenerateError) = (calls[d].result.error = GenerateError) )
              => /\ calls[c].sent = calls[d].sent
                 /\ ThrownError(calls[c]) = ThrownError(calls[d])

\* An update has sent its documents with the embeddings generated for them
\* while the other caller's modify is in flight, after a modify that renamed
\* the Collection.
C18_Witness ==
    /\ calls["p"].op = "update" /\ calls["p"].pc = "request"
    /\ calls["p"].returned = Arr(<<V2, V1>>)
    /\ calls["p"].sent[1].embeddings = Arr(<<V2, V1>>)
    /\ calls["q"].op = "modify" /\ calls["q"].pc = "request"
    /\ coll.name # made.name

(***************************************************************************)
(* C21.  When the normalized ids of an add or upsert hold one or more      *)
(* non-strings (validate normalizes ids once the embeddings are there,     *)
(* given or generated), the call fails with the type error, which reports  *)
(* the lowest index that holds a non-string, and the type found there.     *)
(***************************************************************************)
C21_LowestNonStringIndex ==
    \A c \in InsertCalls :
        LET call == calls[c]
            ids == Elements(call.ids)
            bad == {i \in 1..Len(ids) : ids[i].k # "string"}
        IN  (bad # {} /\ EmbeddingsOf(call) # Undef)
                => /\ Failed(call)
                   /\ call.result.error.msg = TypeError("", 0).msg
                   /\ \A i \in bad : call.result.error.index + 1 <= i
                   /\ call.result.error.index + 1 \in bad
                   /\ call.result.error.found = ids[call.result.error.index + 1].k
                   /\ call.sent = <<>>

\* An upsert of ids ["a", 7] with documents has failed, after generate, with
\* the type error for index 1.
C21_Witness ==
    \E c \in InsertCalls :
        /\ calls[c].op = "upsert"
        /\ calls[c].ids = Arr(<<Str("a"), Num("7")>>)
        /\ calls[c].embeddings = Undef /\ calls[c].returned # Undef
        /\ FailedWith(calls[c], TypeError("number", 1))

(***************************************************************************)
(* C22.  When an add or upsert fails with the uniqueness error, the values *)
(* the error lists are, as a set, the id values that occur more than once  *)
(* in the batch: each of them is listed, and no value that occurs once.    *)
(***************************************************************************)
C22_ListedAreTheDuplicates ==
    \A c \in InsertCalls :
        LET call == calls[c]
            listed == call.result.error.ids
        IN  (Failed(call) /\ call.result.error.msg = UniquenessError(<<>>).msg)
                => {listed[i] : i \in 1..Len(listed)} = RepeatedValues(Elements(call.ids))

\* The spec's example: an add of ids ["a", "b", "a"] with three vectors has
\* failed listing "a".
C22_Witness ==
    \E c \in InsertCalls :
        /\ calls[c].op = "add"
        /\ calls[c].ids = Arr(<<Str("a"), Str("b"), Str("a")>>)
        /\ calls[c].embeddings = Arr(<<V1, V2, V1>>)
        /\ FailedWith(calls[c], UniquenessError(<<Str("a")>>))

(***************************************************************************)
(* C23.  As claimed: an add or upsert whose batch has a structural         *)
(* violation fails before any external call: the embedding function is not *)
(* invoked and nothing is sent, also when documents come without           *)
(* embeddings.                                                             *)
(***************************************************************************)
C23_StructureBeforeExternalCalls ==
    \A c \in InsertCalls :
        StructuralViolation(calls[c])
            => /\ calls[c].generated = <<>>
               /\ calls[c].sent = <<>>

(***************************************************************************)
(* C23, amended.  An add or upsert whose batch has a structural violation  *)
(* fails before any request to the service.  The embedding function is not *)
(* invoked for it when embeddings are supplied; when documents come        *)
(* without embeddings and an embedding function is configured, it is       *)
(* invoked once, on the normalized documents, before the ids and lengths   *)
(* are looked at.                                                          *)
(***************************************************************************)
C23_StructureBeforeRequest ==
    \A c \in InsertCalls :
        LET call == calls[c]
        IN  StructuralViolation(call)
                => /\ call.sent = <<>>
                   /\ call.pc = "done" => Failed(call)
                   /\ call.embeddings # Undef => call.generated = <<>>
                   /\ ( /\ call.embeddings = Undef /\ call.documents # Undef
                         /\ coll.embeddingFunction # Undef )
                        => call.generated = <<Arr(Elements(call.documents))>>

\* An upsert of ids ["a", "a"] with two documents has had them embedded and
\* then failed with the uniqueness error.
C23_Witness ==
    \E c \in InsertCalls :
        /\ calls[c].op = "upsert"
        /\ calls[c].ids = Arr(<<Str("a"), Str("a")>>)
        /\ calls[c].embeddings = Undef /\ calls[c].documents = Arr(<<D1, D2>>)
        /\ calls[c].generated = <<Arr(<<D1, D2>>)>> /\ calls[c].returned # Undef
        /\ FailedWith(calls[c], UniquenessError(<<Str("a")>>))
        /\ calls[c].sent = <<>>

(***************************************************************************)
(* C24.  No add, upsert or query raises the internal error "embeddings is  *)
(* undefined but shouldnt be", whatever the caller passes, the embedding   *)
(* function returning a sequence of vectors when it returns.               *)
(***************************************************************************)
C24_InternalErrorUnreachable ==
    \A c \in InsertCalls \cup QueryCalls :
        /\ calls[c].result.error.msg # "embeddings is undefined but shouldnt be"
        /\ calls[c].result.error # InternalError

\* A query with a text alone has passed the check of line 784 with what
\* generate returned, and sent its request.
C24_Witness ==
    \E c \in QueryCalls :
        /\ calls[c].queryEmbeddings = Undef /\ calls[c].queryTexts = D1
        /\ calls[c].returned # Undef /\ calls[c].pc = "request"

(***************************************************************************)
(* C25.  A field the caller omits is absent in the payload, never an empty *)
(* or one-element sequence: metadatas and documents in add, upsert and     *)
(* update; ids in get and delete; and embeddings in an update given        *)
(* neither embeddings nor documents, for which the embedding function is   *)
(* not invoked.                                                            *)
(***************************************************************************)
C25_OmittedStaysAbsent ==
    \A c \in DOMAIN calls :
        LET call == calls[c]
        IN  call.sent # <<>> =>
              /\ call.op \in {"add", "upsert", "update"} =>
                    /\ call.metadatas = Undef => call.sent[1].metadatas = Undef
                    /\ call.documents = Undef => call.sent[1].documents = Undef
              /\ call.op \in {"get", "delete"} =>
                    (call.ids = Undef => call.sent[1].ids = Undef)
              /\ (call.op = "update" /\ call.embeddings = Undef /\ call.documents = Undef) =>
                    /\ call.sent[1].embeddings = Undef
                    /\ call.generated = <<>>

\* An update of one id with metadata alone has sent the metadata, and neither
\* embeddings nor documents.
C25_Witness ==
    \E c \in UpdateCalls :
        /\ calls[c].ids = Str("a") /\ calls[c].metadatas = M1
        /\ calls[c].embeddings = Undef /\ calls[c].documents = Undef
        /\ calls[c].pc = "request"
        /\ calls[c].sent[1].metadatas = Arr(<<M1>>)
        /\ calls[c].sent[1].embeddings = Undef /\ calls[c].sent[1].documents = Undef

(***************************************************************************)
(* C26.  As claimed: when the service answers a modify with a failure, the *)
(* Collection's local name and metadata stay what they were before the     *)
(* call.                                                                   *)
(***************************************************************************)
C26_FailedModifyKeepsLocalState ==
    [][ \A c \in DOMAIN calls :
            ( /\ calls[c].op = "modify" /\ calls[c].pc = "request"
              /\ calls'[c].pc = "done" /\ calls'[c].response # NoError )
                => (coll'.name = coll.name /\ coll'.metadata = coll.metadata) ]_vars

(***************************************************************************)
(* C27.  Over any sequence of modify calls made one after the other, the   *)
(* Collection's local name is the most recent non-empty name supplied, or  *)
(* the constructor's if none was, and its local metadata the most recent   *)
(* metadata supplied, or the constructor's if none was: a Collection       *)
(* starts with the constructor's values, each modify sets the name it is   *)
(* given unless that is absent or empty, and the metadata it is given      *)
(* unless that is absent, and nothing else changes either.                 *)
(***************************************************************************)
C27_ModifyKeepsLatest ==
    [][ LET ends == {c \in DOMAIN calls : /\ calls[c].op = "modify" /\ calls[c].pc = "request"
                                           /\ calls'[c].pc = "done"}
            constructs == {c \in DOMAIN calls : /\ calls[c].op \in CollectionOps
                                            /\ calls[c].pc = "request"
                                            /\ calls'[c].pc = "done"
                                            /\ calls'[c].result.kind = "resolved"}
        IN  /\ \A c \in ends :
                  /\ coll'.name = (IF calls[c].name \in {Undef, Str("")} THEN coll.name
                                    ELSE calls[c].name)
                  /\ coll'.metadata = (IF calls[c].metadata = Undef THEN coll.metadata
                                        ELSE calls[c].metadata)
            /\ constructs # {} => coll' = made'
            /\ (ends = {} /\ constructs = {}) =>
                  (coll'.name = coll.name /\ coll'.metadata = coll.metadata /\ made' = made) ]_vars

\* A modify that gave metadata and no name has left the name the constructor
\* set and replaced the metadata.
C27_Witness ==
    \E c \in DOMAIN calls :
        /\ calls[c].op = "modify" /\ calls[c].pc = "done"
        /\ calls[c].name = Undef /\ calls[c].metadata = Obj("cm2")
        /\ made.metadata = Obj("cm1") /\ coll.metadata = Obj("cm2")
        /\ coll.name = made.name

(***************************************************************************)
(* C28.  When the caller gives embeddings to add, upsert or update, with   *)
(* or without documents, or queryEmbeddings to query, the embedding        *)
(* function is never invoked, the vectors transmitted are the ones given   *)
(* (a flat vector as one vector), and a Collection without an embedding    *)
(* function raises no configuration error.                                 *)
(***************************************************************************)
C28_GivenEmbeddingsAreUsed ==
    \A c \in DOMAIN calls :
        LET call == calls[c]
        IN  /\ (call.op \in {"add", "upsert", "update"} /\ call.embeddings # Undef) =>
                  /\ call.generated = <<>> /\ call.returned = Undef
                  /\ call.result.error # ConfigurationError
                  /\ call.sent # <<>> =>
                        call.sent[1].embeddings = Arr(VectorsOf(call.embeddings))
                  /\ call.op = "update" => Len(call.sent) = 1
            /\ (call.op = "query" /\ call.queryEmbeddings # Undef) =>
                  /\ call.generated = <<>> /\ call.returned = Undef
                  /\ call.result.error # ConfigurationError
                  /\ Len(call.sent) = 1
                  /\ call.sent[1].query_embeddings = Arr(VectorsOf(call.queryEmbeddings))

\* An add with two vectors and two documents, on a Collection without an
\* embedding function, has sent the two vectors.
C28_Witness ==
    \E c \in InsertCalls :
        /\ calls[c].op = "add" /\ coll.embeddingFunction = Undef
        /\ calls[c].embeddings = Arr(<<V1, V2>>) /\ calls[c].documents = Arr(<<D1, D2>>)
        /\ calls[c].pc = "request"
        /\ calls[c].sent[1].embeddings = Arr(<<V1, V2>>)

(***************************************************************************)
(* C29.  A Collection's id is the id the service answered with when the    *)
(* Collection was created or fetched, and stays that: after any sequence   *)
(* of operations, a modify with a new name among them, every request the   *)
(* Collection sends is addressed to that id.                               *)
(***************************************************************************)
C29_IdNeverChanges ==
    /\ coll.id = made.id
    /\ \A c \in DOMAIN calls :
          /\ ( /\ calls[c].op \in CollectionOps /\ calls[c].pc = "done"
                /\ calls[c].result.kind = "resolved" )
                => (coll.live /\ made.id = calls[c].answer.id)
          /\ calls[c].op \in CollectionMethods =>
                \A i \in 1..Len(calls[c].sent) : calls[c].sent[i].target = made.id

\* After a modify has renamed the Collection, a count is addressed to the id
\* the Collection was built with.
C29_Witness ==
    \E c \in DOMAIN calls :
        /\ calls[c].op = "count" /\ calls[c].pc = "request"
        /\ coll.name # made.name
        /\ made.id = Str("id2") /\ calls[c].sent[1].target = Str("id2")

(***************************************************************************)
(* C30.  As claimed: when two modify calls with different names have run   *)
(* at the same time on one Collection and both have completed, the         *)
(* Collection's local name is the name the service applied last, in        *)
(* whatever order the service took up the requests and its answers came    *)
(* back.                                                                   *)
(***************************************************************************)
C30_LocalNameIsLastApplied ==
    \A c, d \in DOMAIN calls :
        ( /\ c # d
          /\ calls[c].op = "modify" /\ calls[d].op = "modify"
          /\ calls[c].pc = "done" /\ calls[d].pc = "done"
          /\ calls[c].applied /\ calls[d].applied
          /\ Truthy(calls[c].name) /\ Truthy(calls[d].name)
          /\ calls[c].name # calls[d].name
          /\ calls[c].applied_last )
            => coll.name = calls[c].name

====
